---- MODULE Spec2Model ----
(***************************************************************************)
(* A model of adb-logger-cli: the log pipeline of src/index.js             *)
(* (startLogging, cleanup, the stream handlers, matchesLogLevel,           *)
(* colorizeLog), the recent-apps list of the preferences manager and the   *)
(* device enumeration of the device manager.                               *)
(*                                                                         *)
(* A JavaScript string is a sequence of one-character strings, so that     *)
(* includes, trim and split are computed and not assumed.                  *)
(***************************************************************************)
EXTENDS Integers, Sequences, FiniteSets, TLC

VARIABLES
    \* ---- the host process and one logging session (src/index.js) ----
    hostState,        \* "init" | "resolving" | "running" | "returned" | "exited" | "killed"
    exitCode,         \* the code given to process.exit, -1 before
    packageName,      \* startLogging's packageName
    logLevel,         \* startLogging's logLevel
    pid,              \* const pid (line 250): [isNull, str]
    adbArgs,          \* let adbArgs (line 251)
    childState,       \* the adb child: "none" | "running" | "failed" | "signalled" | "dead"
    killed,           \* adb.killed
    activeProcesses,  \* this.activeProcesses
    eventListeners,   \* this.eventListeners: the keys of the Map
    stdoutListeners,  \* listeners of adb.stdout 'data'
    stderrListeners,  \* listeners of adb.stderr 'data'
    errorListeners,   \* listeners of adb 'error'
    sigintListeners,  \* listeners of process 'SIGINT'
    received,         \* the chunks handed to dataHandler, in order
    display,          \* what colorizeLog printed, in order: [text, style]
    reported,         \* what console.error printed, in order
    \* ---- history of the release actions (ghost) ----
    killCalls,        \* calls of adb.kill()
    childDetaches,    \* times the child's listeners were removed
    sigintDetaches,   \* times the session's sigintHandler was removed
    cleanups,         \* calls of cleanup()
    sigintAt,         \* Len(display) when sigintHandler started, -1 before
    nErrors,          \* 'error' events of a live child so far
    lookup,           \* what the process-id lookup did (ghost)
    replaced,         \* the SIGINT listeners startLogging found and removed (ghost)
    \* ---- Severity classifier and colorizer on their own ----
    cLine, cLevel, cMatched, cPrinted, cPc,
    \* ---- preferences store ----
    recentApps,       \* the stored value of key "recentApps" ([isNull, val])
    addLog,           \* the packageNames given to addRecentApp, in order (ghost)
    prevApps,         \* the list before the last addRecentApp (ghost)
    \* ---- device enumeration ----
    devEntries,       \* the <id, status> pairs the device query printed
    devStdout,        \* its standard output
    deviceInfo        \* what checkDevices returned

sessionVars == <<hostState, exitCode, packageName, logLevel, pid, adbArgs,
                 childState, killed, activeProcesses, eventListeners,
                 stdoutListeners, stderrListeners, errorListeners,
                 sigintListeners, received, display, reported, killCalls,
                 childDetaches, sigintDetaches, cleanups, sigintAt, nErrors,
                 lookup, replaced>>
classVars == <<cLine, cLevel, cMatched, cPrinted, cPc>>
prefVars == <<recentApps, addLog, prevApps>>
devVars == <<devEntries, devStdout, deviceInfo>>
vars == <<sessionVars, classVars, prefVars, devVars>>

------------------------------------------------------------------------------
\* Bounds of the model.
MaxChunks == 2      \* stdout chunks delivered in one session
MaxErrors == 2      \* 'error' events of a live child in one session
MaxStderr == 1      \* stderr chunks reported in one session
MaxTokens == 3      \* pieces a line given to the classifier is made of
NumPkgs == 11       \* distinct packages ever added to the recent apps
MaxReAdds == 1      \* additions of a package that was added before
MaxDevices == 2     \* entries the device query prints

------------------------------------------------------------------------------
\* JavaScript strings.

SP == " "
NL == "\n"
TAB == "\t"

\* s.slice(i - 1, j) for 1-based i: the characters i .. j of s
Slice(s, i, j) == [k \in 1..(j - i + 1) |-> s[i + k - 1]]

\* String.prototype.includes
Includes(s, sub) ==
    \E i \in 1..(Len(s) - Len(sub) + 1) : Slice(s, i, i + Len(sub) - 1) = sub

\* the white space String.prototype.trim removes
IsSpace(c) == c \in {SP, NL, TAB, "\r"}

\* String.prototype.trim
Trim(s) ==
    LET keep == {i \in 1..Len(s) : ~IsSpace(s[i])}
    IN IF keep = {} THEN <<>>
       ELSE LET lo == CHOOSE i \in keep : \A j \in keep : i <= j
                hi == CHOOSE i \in keep : \A j \in keep : j <= i
            IN Slice(s, lo, hi)

\* String.prototype.split(sep) for a one-character separator
RECURSIVE Split(_, _)
Split(s, sep) ==
    IF \A i \in 1..Len(s) : s[i] # sep THEN <<s>>
    ELSE LET at == CHOOSE i \in 1..Len(s) :
                       s[i] = sep /\ \A j \in 1..(i - 1) : s[j] # sep
         IN <<Slice(s, 1, at - 1)>> \o Split(Slice(s, at + 1, Len(s)), sep)

------------------------------------------------------------------------------
\* Severity classifier and colorizer (src/index.js).

Levels == {"V", "D", "I", "W", "E", "F"}

\* a marker of the table: the level's letter and a slash
Mk(l) == <<l, "/">>

\* the table with Warning's set lacking the Error marker
logLevelsWarningLacksError ==
    [l \in Levels |->
        CASE l = "V" -> <<Mk("V"), Mk("D"), Mk("I"), Mk("W"), Mk("E"), Mk("F")>>
          [] l = "D" -> <<Mk("D"), Mk("I"), Mk("W"), Mk("E"), Mk("F")>>
          [] l = "I" -> <<Mk("I"), Mk("W"), Mk("E"), Mk("F")>>
          [] l = "W" -> <<Mk("W"), Mk("F")>>
          [] l = "E" -> <<Mk("E"), Mk("F")>>
          [] l = "F" -> <<Mk("F")>>]

\* this.logLevels (lines 14-21): the own properties of the object
logLevels ==
    [l \in Levels |->
        CASE l = "V" -> <<Mk("V"), Mk("D"), Mk("I"), Mk("W"), Mk("E"), Mk("F")>>
          [] l = "D" -> <<Mk("D"), Mk("I"), Mk("W"), Mk("E"), Mk("F")>>
          [] l = "I" -> <<Mk("I"), Mk("W"), Mk("E"), Mk("F")>>
          [] l = "W" -> <<Mk("W"), Mk("E"), Mk("F")>>
          [] l = "E" -> <<Mk("E"), Mk("F")>>
          [] l = "F" -> <<Mk("F")>>]

\* Property names every object literal inherits from Object.prototype: looking one
\* of them up yields a function or an object, which is truthy and no array.
ObjectPrototypeKeys == {"constructor", "toString"}

\* this.logLevels[level] || this.logLevels["I"] (line 333): the array to scan, or
\* the inherited non-array value
AllowedLevels(level) ==
    IF level \in DOMAIN logLevels THEN [isArray |-> TRUE, arr |-> logLevels[level]]
    ELSE IF level \in ObjectPrototypeKeys THEN [isArray |-> FALSE, arr |-> <<>>]
    ELSE [isArray |-> TRUE, arr |-> logLevels["I"]]

\* matchesLogLevel (lines 332-335): the boolean returned, or threw when the value
\* looked up has no method some (a TypeError)
matchesLogLevel(line, level) ==
    LET allowed == AllowedLevels(level)
    IN IF ~allowed.isArray THEN [threw |-> TRUE, value |-> FALSE]
       ELSE [threw |-> FALSE,
             value |-> \E k \in 1..Len(allowed.arr) :
                           Includes(line, <<SP>> \o allowed.arr[k])]

\* the table with the Warning entry written before the Error entry
colorsWarningBeforeError ==
    << [marker |-> <<SP>> \o Mk("F"), style |-> "magenta"],
       [marker |-> <<SP>> \o Mk("W"), style |-> "yellow"],
       [marker |-> <<SP>> \o Mk("E"), style |-> "red"],
       [marker |-> <<SP>> \o Mk("I"), style |-> "cyan"],
       [marker |-> <<SP>> \o Mk("D"), style |-> "green"],
       [marker |-> <<SP>> \o Mk("V"), style |-> "gray"] >>

\* const colors (lines 338-345), in the order Object.entries lists them
colors ==
    << [marker |-> <<SP>> \o Mk("F"), style |-> "magenta"],
       [marker |-> <<SP>> \o Mk("E"), style |-> "red"],
       [marker |-> <<SP>> \o Mk("W"), style |-> "yellow"],
       [marker |-> <<SP>> \o Mk("I"), style |-> "cyan"],
       [marker |-> <<SP>> \o Mk("D"), style |-> "green"],
       [marker |-> <<SP>> \o Mk("V"), style |-> "gray"] >>

\* colorizeLog (lines 337-354): the console.log calls it makes, in order
colorizeLog(line) ==
    LET hits == {k \in 1..Len(colors) : Includes(line, colors[k].marker)}
    IN IF hits = {} THEN <<[text |-> line, style |-> "plain"]>>
       ELSE LET first == CHOOSE k \in hits : \A j \in hits : k <= j
            IN <<[text |-> line, style |-> colors[first].style]>>

------------------------------------------------------------------------------
\* The logging session (src/index.js, startLogging and its closures).

\* getPackagePid: null when the lookup fails or prints nothing, else the trimmed output
getPackagePid(outcome) ==
    IF ~outcome.ok THEN [isNull |-> TRUE, str |-> <<>>]
    ELSE LET p == Trim(outcome.stdout)
         IN IF p # <<>> THEN [isNull |-> FALSE, str |-> p]
            ELSE [isNull |-> TRUE, str |-> <<>>]

\* adbArgs (lines 251-262): each argument a sequence of pieces
BuildAdbArgs(p) ==
    << <<"logcat">>, <<"-v">>, <<"time">> >>
        \o (IF ~p.isNull THEN << <<"--pid=">> \o p.str >> ELSE <<>>)

\* the part of the state cleanup works on
Sess ==
    [childState |-> childState, killed |-> killed,
     activeProcesses |-> activeProcesses, eventListeners |-> eventListeners,
     stdoutListeners |-> stdoutListeners, stderrListeners |-> stderrListeners,
     errorListeners |-> errorListeners, sigintListeners |-> sigintListeners,
     killCalls |-> killCalls, childDetaches |-> childDetaches,
     sigintDetaches |-> sigintDetaches, cleanups |-> cleanups]

SetSess(s) ==
    /\ childState' = s.childState
    /\ killed' = s.killed
    /\ activeProcesses' = s.activeProcesses
    /\ eventListeners' = s.eventListeners
    /\ stdoutListeners' = s.stdoutListeners
    /\ stderrListeners' = s.stderrListeners
    /\ errorListeners' = s.errorListeners
    /\ sigintListeners' = s.sigintListeners
    /\ killCalls' = s.killCalls
    /\ childDetaches' = s.childDetaches
    /\ sigintDetaches' = s.sigintDetaches
    /\ cleanups' = s.cleanups

\* the child still has its handle: a signal can be sent to it
Alive(cs) == cs \in {"running", "signalled"}

\* adb.kill() (line 275): the signal is sent and killed set when the child still
\* has its handle; otherwise kill returns false and killed stays as it is
Kill(s) ==
    [s EXCEPT !.killCalls = @ + 1,
              !.killed = IF Alive(s.childState) THEN TRUE ELSE @,
              !.childState = IF Alive(s.childState) THEN "signalled" ELSE @]

\* removeAllEventListeners (lines 320-330)
removeAllEventListeners(s) ==
    LET detach == "adb" \in s.eventListeners /\ ~s.killed
    IN [s EXCEPT !.stdoutListeners = IF detach THEN {} ELSE @,
                 !.stderrListeners = IF detach THEN {} ELSE @,
                 !.errorListeners = IF detach THEN {} ELSE @,
                 !.childDetaches = IF detach THEN @ + 1 ELSE @,
                 !.eventListeners = {},
                 !.sigintDetaches = IF "sigintHandler" \in s.sigintListeners
                                    THEN @ + 1 ELSE @,
                 !.sigintListeners = {}]

\* cleanup without its test of adb.killed
cleanupAlwaysKills(s) ==
    removeAllEventListeners(
        [Kill([s EXCEPT !.cleanups = @ + 1]) EXCEPT !.activeProcesses = @ \ {"adb"}])

\* cleanup (lines 273-279)
cleanup(s) ==
    LET c == [s EXCEPT !.cleanups = @ + 1]
    IN removeAllEventListeners(
           IF ~c.killed
           THEN [Kill(c) EXCEPT !.activeProcesses = @ \ {"adb"}]
           ELSE c)

\* dataHandler without the test of pid: the package filter is always applied
dataHandlerAlwaysFilters(chunk) ==
    LET line == chunk
        m == matchesLogLevel(line, logLevel)
    IN IF ~Includes(line, packageName) THEN <<>>
       ELSE IF ~m.value THEN <<>>
       ELSE colorizeLog(line)

\* dataHandler (lines 281-286): what it prints for one chunk
dataHandler(chunk) ==
    LET line == chunk
        m == matchesLogLevel(line, logLevel)
    IN IF pid.isNull /\ ~Includes(line, packageName) THEN <<>>
       ELSE IF ~m.value THEN <<>>
       ELSE colorizeLog(line)

\* console.log that puts its output before what is already shown
consoleLogPrepends(shown, out) == out \o shown

\* console.log (lines 349 and 353): the display after out is written to it
consoleLog(shown, out) == shown \o out

\* startLogging's registration without the removal of the listeners found
registerSigintKeepsOld(listeners) == listeners \cup {"sigintHandler"}

\* process.removeAllListeners("SIGINT"); process.on("SIGINT", sigintHandler)
\* (lines 315-317): the listeners of SIGINT afterwards
registerSigint(listeners) == (listeners \ listeners) \cup {"sigintHandler"}

\* sigintHandler that returns after cleanup instead of exiting
sigintHandlerNoExit(s) == [sess |-> cleanup(s), exits |-> FALSE, code |-> -1]

\* sigintHandler (lines 297-301): cleanup, then process.exit(0)
sigintHandler(s) == [sess |-> cleanup(s), exits |-> TRUE, code |-> 0]

\* processErrorHandler (lines 292-295)
processErrorHandler(s) == [sess |-> cleanup(s), report |-> "ADB process error"]

------------------------------------------------------------------------------
\* Inputs of a session.

\* the package names a session is started for
PackageNames == {<<"p">>}

\* the levels the log-level prompt offers (lines 183-190)
LevelChoices == Levels

\* what the process-id lookup can do: fail, print nothing, print an id
PidOutcomes ==
    { [ok |-> FALSE, stdout |-> <<>>],
      [ok |-> TRUE, stdout |-> <<>>],
      [ok |-> TRUE, stdout |-> <<NL>>],
      [ok |-> TRUE, stdout |-> <<"7", NL>>] }

\* log lines: an Info and an Error line of the package, an Error line of another
SessionLines ==
    { <<SP, "I", "/", "p">>, <<SP, "E", "/", "p">>, <<SP, "E", "/", "x">> }

\* a chunk of standard output: one line, or two lines delivered together
Chunks ==
    SessionLines
        \cup { <<SP, "I", "/", "p">> \o <<NL>> \o <<SP, "E", "/", "p">>,
               <<SP, "E", "/", "x">> \o <<NL>> \o <<SP, "I", "/", "p">> }

------------------------------------------------------------------------------
\* Initial states.

InitSession ==
    /\ hostState = "init"
    /\ exitCode = -1
    /\ packageName = <<>>
    /\ logLevel = "I"
    /\ pid = [isNull |-> TRUE, str |-> <<>>]
    /\ adbArgs = <<>>
    /\ childState = "none"
    /\ killed = FALSE
    /\ activeProcesses = {}
    /\ eventListeners = {}
    /\ stdoutListeners = {}
    /\ stderrListeners = {}
    /\ errorListeners = {}
    /\ sigintListeners \in {{}, {"other"}}
    /\ received = <<>>
    /\ display = <<>>
    /\ reported = <<>>
    /\ killCalls = 0
    /\ childDetaches = 0
    /\ sigintDetaches = 0
    /\ cleanups = 0
    /\ sigintAt = -1
    /\ nErrors = 0
    /\ lookup = [ok |-> FALSE, stdout |-> <<>>]
    /\ replaced = {}

IdleClassifier ==
    /\ cLine = <<>>
    /\ cLevel = "I"
    /\ cMatched = [threw |-> FALSE, value |-> FALSE]
    /\ cPrinted = <<>>
    /\ cPc = "idle"

IdlePrefs ==
    /\ recentApps = [isNull |-> TRUE, val |-> <<>>]
    /\ addLog = <<>>
    /\ prevApps = <<>>

IdleDevices ==
    /\ devEntries = <<>>
    /\ devStdout = <<>>
    /\ deviceInfo = [connected |-> FALSE, devices |-> <<>>, count |-> 0, error |-> "unset"]

------------------------------------------------------------------------------
\* Actions of a session.

\* startLogging up to its first await (lines 245-250)
StartLogging(pkg, level) ==
    /\ hostState = "init"
    /\ hostState' = "resolving"
    /\ packageName' = pkg
    /\ logLevel' = level
    /\ UNCHANGED <<exitCode, pid, adbArgs, childState, killed, activeProcesses,
                   eventListeners, stdoutListeners, stderrListeners, errorListeners,
                   sigintListeners, received, display, reported, killCalls,
                   childDetaches, sigintDetaches, cleanups, sigintAt, nErrors,
                   lookup, replaced, classVars, prefVars, devVars>>

\* startLogging from the resolved pid to its end (lines 250-317): the child is
\* spawned (spawn is "running", or "failed" when the spawn fails asynchronously and
\* an 'error' event follows) and the session armed
Arm(outcome, spawn) ==
    /\ hostState = "resolving"
    /\ hostState' = "running"
    /\ lookup' = outcome
    /\ pid' = getPackagePid(outcome)
    /\ adbArgs' = BuildAdbArgs(pid')
    /\ childState' = spawn
    /\ activeProcesses' = activeProcesses \cup {"adb"}
    /\ eventListeners' = eventListeners \cup {"adb"}
    /\ stdoutListeners' = stdoutListeners \cup {"dataHandler"}
    /\ stderrListeners' = stderrListeners \cup {"errorHandler"}
    /\ errorListeners' = errorListeners \cup {"processErrorHandler"}
    /\ replaced' = sigintListeners
    /\ sigintListeners' = registerSigint(sigintListeners)
    /\ UNCHANGED <<exitCode, packageName, logLevel, killed, received, display,
                   reported, killCalls, childDetaches, sigintDetaches, cleanups,
                   sigintAt, nErrors,
                   classVars, prefVars, devVars>>

\* startLogging when execa throws (lines 268-271): reported, nothing armed
SpawnThrows(outcome) ==
    /\ hostState = "resolving"
    /\ hostState' = "returned"
    /\ lookup' = outcome
    /\ pid' = getPackagePid(outcome)
    /\ adbArgs' = BuildAdbArgs(pid')
    /\ reported' = Append(reported, "Failed to start ADB logcat")
    /\ UNCHANGED <<exitCode, packageName, logLevel, childState, killed,
                   activeProcesses, eventListeners, stdoutListeners, stderrListeners,
                   errorListeners, sigintListeners, received, display, killCalls,
                   childDetaches, sigintDetaches, cleanups, sigintAt, nErrors,
                   replaced, classVars, prefVars, devVars>>

\* adb.stdout emits 'data' (line 311): dataHandler runs
ChildData(chunk) ==
    /\ hostState = "running"
    /\ Alive(childState)
    /\ "dataHandler" \in stdoutListeners
    /\ Len(received) < MaxChunks
    /\ received' = Append(received, chunk)
    /\ display' = consoleLog(display, dataHandler(chunk))
    /\ UNCHANGED <<hostState, exitCode, packageName, logLevel, pid, adbArgs,
                   childState, killed, activeProcesses, eventListeners,
                   stdoutListeners, stderrListeners, errorListeners, sigintListeners,
                   reported, killCalls, childDetaches, sigintDetaches, cleanups,
                   sigintAt, nErrors,
                   lookup, replaced, classVars, prefVars, devVars>>

\* adb.stderr emits 'data' (line 312): errorHandler (lines 288-290) reports it
ChildStderr ==
    /\ hostState = "running"
    /\ Alive(childState)
    /\ "errorHandler" \in stderrListeners
    /\ Len(SelectSeq(reported, LAMBDA r : r = "ADB error")) < MaxStderr
    /\ reported' = Append(reported, "ADB error")
    /\ UNCHANGED <<hostState, exitCode, packageName, logLevel, pid, adbArgs,
                   childState, killed, activeProcesses, eventListeners,
                   stdoutListeners, stderrListeners, errorListeners, sigintListeners,
                   received, display, killCalls, childDetaches, sigintDetaches,
                   cleanups, sigintAt, nErrors,
                   lookup, replaced, classVars, prefVars, devVars>>

\* adb emits 'error' (line 313): processErrorHandler runs. The child that failed to
\* spawn has no handle; a child that is running may report an error as well.
ChildError ==
    /\ hostState = "running"
    /\ "processErrorHandler" \in errorListeners
    /\ \/ childState = "failed"
       \/ Alive(childState) /\ nErrors < MaxErrors
    /\ LET h == processErrorHandler(
                    [Sess EXCEPT !.childState = IF @ = "failed" THEN "dead" ELSE @])
       IN /\ SetSess(h.sess)
          /\ reported' = Append(reported, h.report)
    /\ nErrors' = IF Alive(childState) THEN nErrors + 1 ELSE nErrors
    /\ UNCHANGED <<hostState, exitCode, packageName, logLevel, pid, adbArgs,
                   received, display, sigintAt,
                   lookup, replaced, classVars, prefVars, devVars>>

\* the child ends: no listener of the session hears it
ChildExit ==
    /\ hostState = "running"
    /\ Alive(childState)
    /\ childState' = "dead"
    /\ UNCHANGED <<hostState, exitCode, packageName, logLevel, pid, adbArgs, killed,
                   activeProcesses, eventListeners, stdoutListeners, stderrListeners,
                   errorListeners, sigintListeners, received, display, reported,
                   killCalls, childDetaches, sigintDetaches, cleanups, sigintAt,
                   nErrors,
                   lookup, replaced, classVars, prefVars, devVars>>

\* SIGINT while the session's handler is registered (line 317): sigintHandler runs
Sigint ==
    /\ hostState = "running"
    /\ "sigintHandler" \in sigintListeners
    /\ sigintAt' = Len(display)
    /\ LET h == sigintHandler(Sess)
       IN /\ SetSess(h.sess)
          /\ exitCode' = h.code
          /\ hostState' = IF h.exits THEN "exited" ELSE hostState
    /\ UNCHANGED <<packageName, logLevel, pid, adbArgs, received, display, reported,
                   nErrors,
                   lookup, replaced, classVars, prefVars, devVars>>

\* SIGINT with no listener registered: the signal ends the host process (what a
\* listener of other code does with the signal is not part of the model)
SigintDefault ==
    /\ hostState \notin {"exited", "killed"}
    /\ sigintListeners = {}
    /\ hostState' = "killed"
    /\ UNCHANGED <<exitCode, packageName, logLevel, pid, adbArgs, childState, killed,
                   activeProcesses, eventListeners, stdoutListeners, stderrListeners,
                   errorListeners, sigintListeners, received, display, reported,
                   killCalls, childDetaches, sigintDetaches, cleanups, sigintAt,
                   nErrors,
                   lookup, replaced, classVars, prefVars, devVars>>

Init == InitSession /\ IdleClassifier /\ IdlePrefs /\ IdleDevices

Next ==
    \/ \E pkg \in PackageNames, level \in LevelChoices : StartLogging(pkg, level)
    \/ \E outcome \in PidOutcomes, spawn \in {"running", "failed"} : Arm(outcome, spawn)
    \/ \E outcome \in PidOutcomes : SpawnThrows(outcome)
    \/ \E chunk \in Chunks : ChildData(chunk)
    \/ ChildStderr
    \/ ChildError
    \/ ChildExit
    \/ Sigint
    \/ SigintDefault

Spec == Init /\ [][Next]_vars

------------------------------------------------------------------------------
\* Claims about the session.

\* a session was armed (startLogging ran to its end)
Armed == childState # "none"

\* C1: in one session each release action (killing the child, detaching the child's
\* listeners, detaching the interrupt handler) is performed at most once, however
\* many times teardown is triggered.
C1_ReleaseAtMostOnce ==
    /\ killCalls <= 1
    /\ childDetaches <= 1
    /\ sigintDetaches <= 1

\* teardown ran twice in one session, and the child was killed
C1_Witness == cleanups >= 2 /\ killCalls = 1

\* the child's 'error' event was handled: reported, and teardown ran
ErrorHandled ==
    /\ \E k \in 1..Len(reported) : reported[k] = "ADB process error"
    /\ cleanups >= 1

\* C2: after the child's 'error' event is handled nothing of the session is left:
\* the child is not in the active set, the registry is empty, no listener of the
\* session is attached to the child and no interrupt handler is registered.
C2_NoResidueAfterError ==
    ErrorHandled =>
        /\ "adb" \notin activeProcesses
        /\ eventListeners = {}
        /\ stdoutListeners = {} /\ stderrListeners = {} /\ errorListeners = {}
        /\ sigintListeners = {}

\* C3: once the interrupt handler has started, teardown has run, the host process
\* has exited with code 0 and nothing more was displayed.
C3_InterruptStopsDisplay ==
    sigintAt # -1 =>
        /\ cleanups >= 1
        /\ hostState = "exited"
        /\ exitCode = 0
        /\ Len(display) = sigintAt

\* the interrupt came while the child could still deliver chunks to dataHandler
C3_Witness ==
    /\ sigintAt # -1
    /\ childState = "signalled"
    /\ "dataHandler" \in stdoutListeners
    /\ Len(received) < MaxChunks
    /\ Len(display) >= 1

\* the process-id lookup yielded nothing: it failed, or printed only white space
YieldsNothing(o) == ~o.ok \/ \A i \in 1..Len(o.stdout) : IsSpace(o.stdout[i])

\* the chunks received that the classifier alone lets through
PassClassifier == SelectSeq(received, LAMBDA c : matchesLogLevel(c, logLevel).value)

SplitLines(chunk) == Split(chunk, NL)

\* a line passes the filters of the session
LinePasses(l) ==
    /\ pid.isNull => Includes(l, packageName)
    /\ matchesLogLevel(l, logLevel).value

\* what is displayed when every line of every chunk is filtered and styled on its own
RECURSIVE PerLine(_)
PerLine(ls) ==
    IF ls = <<>> THEN <<>>
    ELSE (IF LinePasses(Head(ls)) THEN colorizeLog(Head(ls)) ELSE <<>>)
             \o PerLine(Tail(ls))

RECURSIVE ExpectedDisplay(_)
ExpectedDisplay(chunks) ==
    IF chunks = <<>> THEN <<>>
    ELSE PerLine(SplitLines(Head(chunks))) \o ExpectedDisplay(Tail(chunks))

\* C5: every chunk is split into its lines and each line is filtered and styled on
\* its own: the display holds exactly the lines that pass, each with its own style.
C5_PerLineFiltering == display = ExpectedDisplay(received)

\* a step of startLogging's arming (lines 304-317)
ArmStep == hostState = "resolving" /\ hostState' = "running"

\* a step in which cleanup (lines 273-279) ran, and removeAllEventListeners in it
TeardownStep == cleanups' = cleanups + 1

\* C11: at every point at most one SIGINT listener is registered on the host
\* process; once the session is armed the listeners startLogging found are gone
\* and only the session's own can be registered; and a step changes the
\* registered listeners only when it arms the session or tears it down
C11_AtMostOneSigintHandler ==
    /\ [](Cardinality(sigintListeners) <= 1)
    /\ [](Armed => sigintListeners \subseteq {"sigintHandler"})
    /\ [][sigintListeners' # sigintListeners => ArmStep \/ TeardownStep]_vars

\* the session was armed while a listener of other code was registered, that
\* listener was removed and the session's own is the one registered
C11_Witness ==
    /\ Armed
    /\ replaced = {"other"}
    /\ sigintListeners = {"sigintHandler"}

\* the child ended without the session having signalled it and without an 'error'
\* event: it exited on its own
ExitedOnItsOwn ==
    /\ childState = "dead"
    /\ ~killed
    /\ \A k \in 1..Len(reported) : reported[k] # "ADB process error"

\* one of the exit paths of an armed session has occurred: SIGINT was handled, the
\* child's 'error' event was handled, or the child exited on its own
ExitPathTaken ==
    /\ Armed
    /\ \/ sigintAt >= 0
       \/ \E k \in 1..Len(reported) : reported[k] = "ADB process error"
       \/ ExitedOnItsOwn

\* the child was sent the kill signal or has ended
Terminated == killed \/ childState = "dead"

\* C12: whichever exit path an armed session takes (SIGINT, the child's 'error'
\* event, the child exiting on its own), teardown has run exactly once and the
\* session's child is terminated
C12_TeardownExactlyOnce ==
    ExitPathTaken => cleanups = 1 /\ Terminated

\* what the chunks show when each one's output is written, in the order received,
\* before the next one is handled
RECURSIVE InReceivedOrder(_)
InReceivedOrder(chunks) ==
    IF chunks = <<>> THEN <<>>
    ELSE InReceivedOrder(SubSeq(chunks, 1, Len(chunks) - 1))
             \o dataHandler(chunks[Len(chunks)])

\* C13: the display holds the outputs of the chunks in the order the chunks were
\* received, and after each chunk everything that chunk and the earlier ones let
\* through is already displayed (nothing is held back for a later chunk)
C13_DisplayInReceiveOrder == display = InReceivedOrder(received)

\* two chunks were received, both were displayed, and their outputs differ
C13_Witness ==
    /\ Len(received) = 2
    /\ Len(display) = 2
    /\ display[1] # display[2]
    /\ dataHandler(received[1]) = <<display[1]>>

------------------------------------------------------------------------------
\* The classifier and the colorizer on their own inputs.

\* the pieces lines are made of: each marker with its leading space, a marker
\* without one, a space, another character
Tokens == {<<SP>> \o Mk(l) : l \in Levels} \cup {Mk("E"), <<SP>>, <<"x">>}

RECURSIVE LinesOf(_)
LinesOf(n) ==
    IF n = 0 THEN {<<>>}
    ELSE LinesOf(n - 1) \cup {t \o l : t \in Tokens, l \in LinesOf(n - 1)}

ClassifierLines == LinesOf(MaxTokens)

\* the levels given: the six of the table, an unknown one, a missing one (the key
\* "undefined"), and names every object inherits
LevelInputs == Levels \cup {"X", "undefined"} \cup ObjectPrototypeKeys

InitClassifier ==
    /\ cLine \in ClassifierLines
    /\ cLevel \in LevelInputs
    /\ cMatched = [threw |-> FALSE, value |-> FALSE]
    /\ cPrinted = <<>>
    /\ cPc = "start"

\* this.matchesLogLevel(line, level)
MatchesLogLevel ==
    /\ cPc = "start"
    /\ cMatched' = matchesLogLevel(cLine, cLevel)
    /\ cPc' = "matched"
    /\ UNCHANGED <<cLine, cLevel, cPrinted, sessionVars, prefVars, devVars>>

\* this.colorizeLog(line)
ColorizeLog ==
    /\ cPc = "matched"
    /\ cPrinted' = cPrinted \o colorizeLog(cLine)
    /\ cPc' = "printed"
    /\ UNCHANGED <<cLine, cLevel, cMatched, sessionVars, prefVars, devVars>>

InitC == InitSession /\ InitClassifier /\ IdlePrefs /\ IdleDevices

NextC == MatchesLogLevel \/ ColorizeLog

SpecClassifier == InitC /\ [][NextC]_vars

------------------------------------------------------------------------------
\* Claims about the classifier and the colorizer.

\* the severity order V < D < I < W < E < F
Rank == [l \in Levels |->
            CASE l = "V" -> 1 [] l = "D" -> 2 [] l = "I" -> 3
              [] l = "W" -> 4 [] l = "E" -> 5 [] l = "F" -> 6]

\* the levels at least as severe as l
AtLeast(l) == {m \in Levels : Rank[m] >= Rank[l]}

\* line holds, somewhere, a space, the letter of level l and a slash
HasMarker(line, l) ==
    \E i \in 1..(Len(line) - 2) :
        line[i] = SP /\ line[i + 1] = l /\ line[i + 2] = "/"

\* the level an unknown or missing level stands for
TreatedAs(level) == IF level \in Levels THEN level ELSE "I"

\* C6: matchesLogLevel(line, level) returns true exactly when line holds a space
\* followed by a marker of level's inclusion set, a level outside V, D, I, W, E, F
\* counting as I.
C6_MatchesIffMarker ==
    cPc # "start" =>
        /\ ~cMatched.threw
        /\ cMatched.value <=> \E l \in AtLeast(TreatedAs(cLevel)) : HasMarker(cLine, l)

\* the same for every level that is no name inherited from Object.prototype
MatchesIffMarkerOwnOrUnknown ==
    (cPc # "start" /\ cLevel \notin ObjectPrototypeKeys) =>
        /\ ~cMatched.threw
        /\ cMatched.value <=> \E l \in AtLeast(TreatedAs(cLevel)) : HasMarker(cLine, l)

\* the markers of level l's inclusion set
SetOf(l) == {logLevels[l][k] : k \in 1..Len(logLevels[l])}

\* C7: the inclusion sets are strictly nested along V < D < I < W < E < F (the set
\* of every level more severe than the level given is a strict subset of its set),
\* the set of V holds all six markers, and the set of a level is that level and all
\* more severe ones.
C7_NestedInclusionSets ==
    cLevel \in Levels =>
        /\ \A s1 \in Levels :
               Rank[s1] > Rank[cLevel] =>
                   SetOf(s1) \subseteq SetOf(cLevel) /\ SetOf(s1) # SetOf(cLevel)
        /\ SetOf("V") = {Mk(l) : l \in Levels}
        /\ SetOf(cLevel) = {Mk(m) : m \in AtLeast(cLevel)}

\* a line that Warning drops and Info keeps, and a line Warning keeps
C7_Witness ==
    /\ cPc = "matched"
    /\ cLevel = "W"
    /\ ~cMatched.value
    /\ matchesLogLevel(cLine, "I").value
    /\ matchesLogLevel(cLine \o <<SP, "E", "/">>, "W").value

\* the style of each level
StyleOf == [l \in Levels |->
               CASE l = "F" -> "magenta" [] l = "E" -> "red" [] l = "W" -> "yellow"
                 [] l = "I" -> "cyan" [] l = "D" -> "green" [] l = "V" -> "gray"]

\* the style of the most severe level whose marker line holds, "plain" if none
StyleByPriority(line) ==
    IF \A l \in Levels : ~HasMarker(line, l) THEN "plain"
    ELSE LET top == CHOOSE l \in Levels :
                        /\ HasMarker(line, l)
                        /\ \A m \in Levels : HasMarker(line, m) => Rank[m] <= Rank[l]
         IN StyleOf[top]

\* C8 as stated: one print, with the style of the first marker in the order Fatal,
\* Error, Warning, Info, Debug, Verbose, and a line with both an Error and a Warning
\* marker is always styled as Error.
C8_ErrorAlwaysBeatsWarning ==
    cPc = "printed" =>
        /\ Len(cPrinted) = 1
        /\ cPrinted[1].text = cLine
        /\ cPrinted[1].style = StyleByPriority(cLine)
        /\ (HasMarker(cLine, "E") /\ HasMarker(cLine, "W")) => cPrinted[1].style = "red"

\* C8 amended: one print, with the style of the first marker in the order Fatal,
\* Error, Warning, Info, Debug, Verbose ("plain" without a marker), and a line with
\* both an Error and a Warning marker and no Fatal marker is styled as Error.
C8_FirstMarkerInPriorityOrder ==
    cPc = "printed" =>
        /\ Len(cPrinted) = 1
        /\ cPrinted[1].text = cLine
        /\ cPrinted[1].style = StyleByPriority(cLine)
        /\ (HasMarker(cLine, "E") /\ HasMarker(cLine, "W") /\ ~HasMarker(cLine, "F"))
               => cPrinted[1].style = "red"

\* a line with a Warning marker before an Error marker was printed, as Error
C8_Witness ==
    /\ cPc = "printed"
    /\ cLine = <<SP, "W", "/", SP, "E", "/">>
    /\ cPrinted = <<[text |-> cLine, style |-> "red"]>>

------------------------------------------------------------------------------
\* The recent apps of the preferences manager (PreferencesManager).

\* the length addRecentApp cuts the list to: slice(0, 10)
RecentCap == 10

\* get (lines 29-32): the stored value, or the default when nothing truthy is stored
get(stored, defaultValue) == IF stored.isNull THEN defaultValue ELSE stored.val

\* getRecentApps (lines 39-41)
getRecentApps(stored) == get(stored, <<>>)

\* addRecentApp that does not remove the app's earlier entry
addRecentAppKeepsOld(stored, app) ==
    LET recent == getRecentApps(stored)
        updated == <<app>> \o recent
    IN [isNull |-> FALSE,
        val |-> SubSeq(updated, 1, IF Len(updated) < RecentCap THEN Len(updated) ELSE RecentCap)]

\* addRecentApp (lines 43-50): the value it stores
addRecentApp(stored, app) ==
    LET recent == getRecentApps(stored)
        filtered == SelectSeq(recent, LAMBDA r : r.packageName # app.packageName)
        updated == <<app>> \o filtered
    IN [isNull |-> FALSE,
        val |-> SubSeq(updated, 1, IF Len(updated) < RecentCap THEN Len(updated) ELSE RecentCap)]

\* the apps given: package k of a discovered project, and package 1 entered by hand
\* as well (selectApp names it "Custom App")
Apps ==
    {[name |-> "proj", packageName |-> k] : k \in 1..NumPkgs}
        \cup {[name |-> "Custom App", packageName |-> 1]}

\* the packages added so far; new packages are numbered in the order they come
Known == {addLog[i] : i \in 1..Len(addLog)}

\* this.preferences.addRecentApp(selectedApp) (index.js line 57)
AddRecentApp(app) ==
    /\ \/ app.packageName = Cardinality(Known) + 1
       \/ app.packageName \in Known /\ Len(addLog) - Cardinality(Known) < MaxReAdds
    /\ prevApps' = getRecentApps(recentApps)
    /\ recentApps' = addRecentApp(recentApps, app)
    /\ addLog' = Append(addLog, app.packageName)
    /\ UNCHANGED <<sessionVars, classVars, devVars>>

InitP == InitSession /\ IdleClassifier /\ IdlePrefs /\ IdleDevices

NextP == \E app \in Apps : AddRecentApp(app)

SpecPrefs == InitP /\ [][NextP]_vars

\* the place of package p's last addition
LastAdded(p) == CHOOSE i \in 1..Len(addLog) :
                    addLog[i] = p /\ \A j \in (i + 1)..Len(addLog) : addLog[j] # p

\* C9: after any additions to an empty store the list has at most 10 entries, no two
\* with the same packageName, the app added last in front and the rest in
\* most-recent-first order; adding an app that is in the list moves it to the front
\* and keeps the list's length.
C9_RecentApps ==
    LET list == getRecentApps(recentApps)
        last == addLog[Len(addLog)]
    IN addLog # <<>> =>
        /\ Len(list) <= 10
        /\ \A i \in 1..Len(list), j \in 1..Len(list) :
               i # j => list[i].packageName # list[j].packageName
        /\ list[1].packageName = last
        /\ \A i \in 1..Len(list) : list[i].packageName \in Known
        /\ \A i \in 1..Len(list), j \in 1..Len(list) :
               i < j => LastAdded(list[i].packageName) > LastAdded(list[j].packageName)
        /\ (\E k \in 1..Len(prevApps) : prevApps[k].packageName = last)
               => Len(list) = Len(prevApps)

\* an app in a full list was added again and moved to the front
C9_Witness ==
    /\ Len(prevApps) = 10
    /\ Len(addLog) >= 12
    /\ prevApps[10].packageName = addLog[Len(addLog)]
    /\ Len(getRecentApps(recentApps)) = 10
    /\ recentApps.val[1].packageName = prevApps[10].packageName

------------------------------------------------------------------------------
\* The device enumeration (DeviceManager.checkDevices).

HeaderLine == <<"L", "i", "s", "t", SP, "o", "f", SP, "d", "e", "v", "i", "c", "e", "s", SP, "a", "t", "t", "a", "c", "h", "e", "d">>
ListOfDevices == <<"L", "i", "s", "t", SP, "o", "f", SP, "d", "e", "v", "i", "c", "e", "s">>
DeviceStatus == <<"d", "e", "v", "i", "c", "e">>

\* the ids and the statuses the device query prints
DevIds == {<<"e", "1">>, <<"e", "2">>}
Statuses == {DeviceStatus, <<"o", "f", "f", "l", "i", "n", "e">>, <<"u", "n", "a", "u", "t", "h", "o", "r", "i", "z", "e", "d">>, <<"d", "e", "v", "i", "c", "e", "s">>}

\* sequences of at most n entries <id, status>
RECURSIVE EntriesOf(_)
EntriesOf(n) ==
    IF n = 0 THEN {<<>>}
    ELSE EntriesOf(n - 1)
            \cup {<<[id |-> i, status |-> st]>> \o es :
                     i \in DevIds, st \in Statuses, es \in EntriesOf(n - 1)}

\* the output of the device query: the header, then a line <id> TAB <status> per entry
RECURSIVE EntryLines(_)
EntryLines(es) ==
    IF es = <<>> THEN <<>>
    ELSE <<NL>> \o Head(es).id \o <<TAB>> \o Head(es).status \o EntryLines(Tail(es))

QueryOutput(es, trailing) == HeaderLine \o EntryLines(es) \o trailing

\* the result when the query itself fails (lines 187-219)
QueryFailed(code) ==
    [connected |-> FALSE, devices |-> <<>>, count |-> 0,
     error |-> CASE code = "ENOENT" -> "ADB not found"
                 [] code = "ETIMEDOUT" -> "ADB command timed out"
                 [] code = "SIGTERM" -> "ADB command was terminated"
                 [] OTHER -> "error.message"]

\* one line of the output as a device (lines 172-179); status is undefined when the
\* line holds no tab
ParseLine(line) ==
    LET parts == Split(line, TAB)
    IN [id |-> Trim(parts[1]),
        hasStatus |-> Len(parts) >= 2,
        status |-> IF Len(parts) >= 2 THEN Trim(parts[2]) ELSE <<>>]

\* checkDevices that takes every status beginning with "device"
checkDevicesByPrefix(stdout) ==
    LET lines == Tail(Split(Trim(stdout), NL))
        kept == SelectSeq(lines, LAMBDA l : Trim(l) # <<>> /\ ~Includes(l, ListOfDevices))
        parsed == [k \in 1..Len(kept) |-> ParseLine(kept[k])]
        devices == SelectSeq(parsed, LAMBDA d :
                       /\ Len(d.id) > 0 /\ Len(d.status) > 0
                       /\ Len(d.status) >= Len(DeviceStatus)
                       /\ SubSeq(d.status, 1, Len(DeviceStatus)) = DeviceStatus)
    IN IF \E k \in 1..Len(parsed) : ~parsed[k].hasStatus THEN QueryFailed("TypeError")
       ELSE [connected |-> Len(devices) > 0,
             devices |-> [k \in 1..Len(devices) |->
                             [id |-> devices[k].id, status |-> devices[k].status,
                              isValid |-> TRUE]],
             count |-> Len(devices), error |-> "none"]

\* checkDevices (lines 162-186) on the standard output of the query; a line without
\* a tab makes status.trim() throw, which the catch turns into a failure
checkDevices(stdout) ==
    LET lines == Tail(Split(Trim(stdout), NL))
        kept == SelectSeq(lines, LAMBDA l : Trim(l) # <<>> /\ ~Includes(l, ListOfDevices))
        parsed == [k \in 1..Len(kept) |-> ParseLine(kept[k])]
        devices == SelectSeq(parsed, LAMBDA d :
                       /\ Len(d.id) > 0 /\ Len(d.status) > 0
                       /\ d.status = DeviceStatus)
    IN IF \E k \in 1..Len(parsed) : ~parsed[k].hasStatus THEN QueryFailed("TypeError")
       ELSE [connected |-> Len(devices) > 0,
             devices |-> [k \in 1..Len(devices) |->
                             [id |-> devices[k].id, status |-> devices[k].status,
                              isValid |-> TRUE]],
             count |-> Len(devices), error |-> "none"]

\* this.deviceManager.checkDevices() (index.js line 35, once in a run) when the
\* query prints its list
CheckDevices(es, trailing) ==
    /\ deviceInfo.error = "unset"
    /\ devEntries' = es
    /\ devStdout' = QueryOutput(es, trailing)
    /\ deviceInfo' = checkDevices(devStdout')
    /\ UNCHANGED <<sessionVars, classVars, prefVars>>

\* this.deviceManager.checkDevices() when the query fails
CheckDevicesFails(code) ==
    /\ deviceInfo.error = "unset"
    /\ devEntries' = <<>>
    /\ devStdout' = <<>>
    /\ deviceInfo' = QueryFailed(code)
    /\ UNCHANGED <<sessionVars, classVars, prefVars>>

InitD == InitSession /\ IdleClassifier /\ IdlePrefs /\ IdleDevices

NextD ==
    \/ \E es \in EntriesOf(MaxDevices), trailing \in {<<>>, <<NL>>, <<NL, NL>>} :
           CheckDevices(es, trailing)
    \/ \E code \in {"ENOENT", "ETIMEDOUT", "SIGTERM", "other"} : CheckDevicesFails(code)

SpecDevices == InitD /\ [][NextD]_vars

\* the entries printed with status "device"
Connected == SelectSeq(devEntries, LAMBDA e : e.status = DeviceStatus)

\* C10: for a header line followed by lines <id> TAB <status>, checkDevices returns
\* as devices exactly the entries whose status is "device", count is their number
\* and connected is true exactly when count is greater than 0.
C10_OnlyStatusDevice ==
    deviceInfo.error = "none" =>
        /\ Len(deviceInfo.devices) = Len(Connected)
        /\ \A k \in 1..Len(Connected) :
               /\ deviceInfo.devices[k].id = Connected[k].id
               /\ deviceInfo.devices[k].status = Connected[k].status
        /\ deviceInfo.count = Len(Connected)
        /\ deviceInfo.connected <=> deviceInfo.count > 0

\* an offline entry was printed before a connected one, and only that one returned
C10_Witness ==
    /\ Len(devEntries) = 2
    /\ devEntries[1].status # DeviceStatus
    /\ devEntries[2].status = DeviceStatus
    /\ deviceInfo.error = "none"
    /\ deviceInfo.count = 1
    /\ deviceInfo.devices[1].id = devEntries[2].id

====
